---- MODULE Spec2Model ----
(***************************************************************************)
(* A model of nbcomplete/dataload: the RecordSerializer of                 *)
(* src/simple/serialization.py (codec registry, decoder derivation with    *)
(* the in-construction map, encoding, decoding), the timestamp text        *)
(* conversions of src/simple/json_util.py and the type descriptor          *)
(* resolver of src/reflection.py.                                          *)
(*                                                                         *)
(* Python values are tagged records [k |-> runtime type, v |-> payload].   *)
(* A text (str) is the sequence of its characters.  Type hints are records *)
(* [k, n, a]: a plain class (k = "class", n its name) or a subscripted     *)
(* generic alias (k = "generic", n its origin, a its arguments).           *)
(***************************************************************************)
EXTENDS Integers, Sequences, FiniteSets, TLC

\* ---------------------------------------------------------------- bounds

\* Threads that call into the one shared RecordSerializer.
NumThreads == 2
\* Calls the threads make, all together.
MaxCalls == 3
\* Nesting depth of the self-referential instances that are decoded.
MaxDepth == 3

\* Nesting depth of the type expressions handed to parse_typehint.
MaxHintDepth == 2

Threads == 1..NumThreads

\* ------------------------------------------------------------ type hints

Cls(n) == [k |-> "class", n |-> n, a |-> <<>>]
Gen(o, args) == [k |-> "generic", n |-> o, a |-> args]
NoneType == Cls("NoneType")
\* typing.Optional[T] is Union[T, None]
Optional(T) == Gen("Union", <<T, NoneType>>)

get_origin(T) == IF T.k = "generic" THEN T.n ELSE "None"
get_args(T) == T.a

ALLOWED_CONTAINERS == {"list", "tuple", "set", "frozenset", "dict"}

\* ------------------------------------------------------------ characters

Chars(n, c) == [i \in 1..n |-> c]
Digit == <<"0", "1", "2", "3", "4", "5", "6", "7", "8", "9">>
IsDigit(c) == \E i \in 1..10 : Digit[i] = c
DigitVal(c) == (CHOOSE i \in 1..10 : Digit[i] = c) - 1

Min(a, b) == IF a < b THEN a ELSE b
Max(a, b) == IF a > b THEN a ELSE b

\* Python's s[a:b] for 0 <= a, with b clamped to the length.
PySlice(s, a, b) == SubSeq(s, Min(a, Len(s)) + 1, Max(Min(b, Len(s)), Min(a, Len(s))))
PyFrom(s, a) == PySlice(s, a, Len(s))
EndsWith(s, suffix) ==
    /\ Len(s) >= Len(suffix)
    /\ SubSeq(s, Len(s) - Len(suffix) + 1, Len(s)) = suffix

\* ---------------------------------------------------------------- values

V(kind, payload) == [k |-> kind, v |-> payload]
NoneV == V("NoneType", <<>>)
IntV(i) == V("int", i)
StrV(s) == V("str", s)
ListV(s) == V("list", s)
DictV(f) == V("dict", f)

\* Outcome of a call: a value, or the exception raised.
Ok(v) == [ok |-> TRUE, v |-> v, exc |-> "", calls |-> 0]
Raise(e) == [ok |-> FALSE, v |-> NoneV, exc |-> e, calls |-> 0]

\* Some enumeration of a finite set; stands for the insertion order of a dict.
Order(S) == CHOOSE s \in [1..Cardinality(S) -> S] : \A i, j \in 1..Cardinality(S) : i # j => s[i] # s[j]
\* Every iteration order of a set (a set's iteration order is not specified).
Perms(S) == {s \in [1..Cardinality(S) -> S] : \A i, j \in 1..Cardinality(S) : i # j => s[i] # s[j]}

\* ------------------------------------------- timestamps (json_util.py)

\* A datetime or time value's payload: base, the text of its fields down to the
\* second ("2021-04-23T09:05:16", "09:05:16"); us, its microsecond; tz, the
\* text of its UTC offset ("" when naive).
Pad6(us) ==
    << Digit[((us \div 100000) % 10) + 1], Digit[((us \div 10000) % 10) + 1],
       Digit[((us \div 1000) % 10) + 1], Digit[((us \div 100) % 10) + 1],
       Digit[((us \div 10) % 10) + 1], Digit[(us % 10) + 1] >>

\* datetime.isoformat / time.isoformat
isoformat(p) == p.base \o (IF p.us # 0 THEN <<".">> \o Pad6(p.us) ELSE <<>>) \o p.tz

UtcOffset == <<"+", "0", "0", ":", "0", "0">>

datetime_to_json(d) ==
    LET s0 == isoformat(d.v)
        s1 == IF EndsWith(s0, UtcOffset) THEN PySlice(s0, 0, Len(s0) - 6) \o <<"Z">> ELSE s0
        s2 == IF d.v.us # 0 THEN PySlice(s1, 0, 23) \o PyFrom(s1, 26) ELSE s1
    IN  Ok(StrV(s2))

\* The digits of s from position i (1-based) on.
RECURSIVE DigitRun(_, _)
DigitRun(s, i) == IF i <= Len(s) /\ IsDigit(s[i]) THEN <<s[i]>> \o DigitRun(s, i + 1) ELSE <<>>

RECURSIVE DigitsValue(_)
DigitsValue(ds) == IF ds = <<>> THEN 0 ELSE DigitsValue(SubSeq(ds, 1, Len(ds) - 1)) * 10 + DigitVal(ds[Len(ds)])

TwoDigits(s, i) == IF IsDigit(s[i]) /\ IsDigit(s[i + 1]) THEN DigitVal(s[i]) * 10 + DigitVal(s[i + 1]) ELSE -1

\* "HH:MM:SS" at position i of s
ValidClock(s, i) ==
    /\ Len(s) >= i + 7
    /\ s[i + 2] = ":" /\ s[i + 5] = ":"
    /\ TwoDigits(s, i) \in 0..23 /\ TwoDigits(s, i + 3) \in 0..59 /\ TwoDigits(s, i + 6) \in 0..59

\* "YYYY-MM-DD" at the start of s (the length of the month is not checked)
ValidDate(s) ==
    /\ Len(s) >= 10
    /\ \A i \in 1..4 : IsDigit(s[i])
    /\ s[5] = "-" /\ s[8] = "-"
    /\ TwoDigits(s, 6) \in 1..12 /\ TwoDigits(s, 9) \in 1..31

\* "+HH:MM" or "-HH:MM", or nothing
ValidOffset(z) ==
    \/ z = <<>>
    \/ /\ Len(z) = 6
       /\ z[1] \in {"+", "-"} /\ z[4] = ":"
       /\ TwoDigits(z, 2) \in 0..23 /\ TwoDigits(z, 5) \in 0..59

\* What follows the seconds: an optional fraction of 3 or 6 digits, then an
\* optional offset.  fromisoformat reads a 3-digit fraction as milliseconds.
ParseTail(kind, base, rest) ==
    LET hasFrac == rest # <<>> /\ rest[1] = "."
        ds == IF hasFrac THEN DigitRun(rest, 2) ELSE <<>>
        z == IF hasFrac THEN PyFrom(rest, 1 + Len(ds)) ELSE rest
        us == IF Len(ds) = 3 THEN DigitsValue(ds) * 1000 ELSE DigitsValue(ds)
    IN  IF (hasFrac => Len(ds) \in {3, 6}) /\ ValidOffset(z)
        THEN Ok(V(kind, [base |-> base, us |-> us, tz |-> z]))
        ELSE Raise("ValueError")

\* datetime.fromisoformat, on texts that carry the fields down to the second
datetime_fromisoformat(s) ==
    IF ValidDate(s) /\ Len(s) >= 19 /\ ValidClock(s, 12)
    THEN ParseTail("datetime", SubSeq(s, 1, 19), PyFrom(s, 19))
    ELSE Raise("ValueError")

\* json_to_datetime without the restoring of the zero offset
json_to_datetime_KeepZ(raw) ==
    IF raw.k # "str" THEN Raise("AttributeError") ELSE datetime_fromisoformat(raw.v)

json_to_datetime(raw) ==
    IF raw.k # "str" THEN Raise("AttributeError")
    ELSE LET s == IF EndsWith(raw.v, <<"Z">>)
                  THEN PySlice(raw.v, 0, Len(raw.v) - 1) \o UtcOffset
                  ELSE raw.v
         IN  datetime_fromisoformat(s)

time_to_json(t) ==
    IF t.v.tz # <<>> THEN Raise("ValueError")
    ELSE LET s == isoformat(t.v)
         IN  Ok(StrV(IF t.v.us # 0 THEN PySlice(s, 0, 12) ELSE s))

json_to_time(raw) ==
    IF raw.k # "str" THEN Raise("TypeError")
    ELSE IF ValidClock(raw.v, 1)
    THEN ParseTail("time", SubSeq(raw.v, 1, 8), PyFrom(raw.v, 8))
    ELSE Raise("ValueError")


\* ------------------------------------------------ the record types in use

\* The client program's declarations: the dataclasses whose one-letter fields
\* are listed in Fields (what typing.get_type_hints returns, in order), one
\* enumeration, and plain classes without a codec (int, str, bytes).
EnumNames == {"Color"}
EnumMembers(e) == {[name |-> "RED", value |-> IntV(1)], [name |-> "BLUE", value |-> IntV(2)]}

IntT == Cls("int")
StrT == Cls("str")
DateTimeT == Cls("datetime")

Fields(c) ==
    CASE c = "Leaf"     -> << [name |-> <<"n">>, type |-> IntT] >>
      [] c = "Node"     -> << [name |-> <<"v">>, type |-> IntT],
                              [name |-> <<"n">>, type |-> Optional(Cls("Node"))] >>
      [] c = "Tree"     -> << [name |-> <<"c">>, type |-> Gen("list", <<Cls("Tree")>>)] >>
      [] c = "Ping"     -> << [name |-> <<"p">>, type |-> Cls("Pong")] >>
      [] c = "Pong"     -> << [name |-> <<"q">>, type |-> Optional(Cls("Ping"))] >>
      [] c = "Event"    -> << [name |-> <<"w">>, type |-> DateTimeT],
                              [name |-> <<"o">>, type |-> Optional(DateTimeT)],
                              [name |-> <<"c">>, type |-> Cls("Color")] >>
      [] c = "Bag"      -> << [name |-> <<"t">>, type |-> Gen("list", <<StrT>>)],
                              [name |-> <<"s">>, type |-> Gen("set", <<IntT>>)],
                              [name |-> <<"m">>, type |-> Optional(Gen("dict", <<StrT, Cls("Leaf")>>))] >>
      [] c = "Blob"     -> << [name |-> <<"b">>, type |-> Cls("bytes")] >>
      [] c = "Bare"     -> << [name |-> <<"x">>, type |-> Cls("list")] >>
      [] c = "OptBare"  -> << [name |-> <<"x">>, type |-> Optional(Cls("set"))] >>
      [] c = "ElemBare" -> << [name |-> <<"x">>, type |-> Gen("list", <<Cls("list")>>)] >>
      [] c = "RawList"  -> << [name |-> <<"x">>, type |-> Gen("list", <<>>)] >>
      [] c = "Holder"   -> << [name |-> <<"l">>, type |-> Cls("Leaf")],
                              [name |-> <<"b">>, type |-> Cls("Bare")] >>
      [] c = "Multi"    -> << [name |-> <<"u">>, type |-> Gen("Union", <<IntT, StrT>>)] >>
      [] c = "Deep"     -> << [name |-> <<"x">>, type |-> Gen("list", <<Optional(IntT)>>)] >>
      [] c = "Queue"    -> << [name |-> <<"x">>, type |-> Gen("deque", <<IntT>>)] >>

DataclassNames ==
    {"Leaf", "Node", "Tree", "Ping", "Pong", "Event", "Bag", "Blob", "Bare", "OptBare",
     "ElemBare", "RawList", "Holder", "Multi", "Deep", "Queue"}

\* dataclasses.is_dataclass / issubclass(_, enum.Enum), of a class name
is_dataclass(n) == n \in DataclassNames
is_enum(n) == n \in EnumNames

FieldNames(c) == {Fields(c)[i].name : i \in 1..Len(Fields(c))}

\* The fields declared with a default (n: Optional[Node] = None); neither
\* get_type_hints nor decode_dataclass looks at it.
Defaulted(c) ==
    CASE c = "Node" -> {<<"n">>}
      [] c = "Pong" -> {<<"q">>}
      [] OTHER -> {}

\* hash(v) succeeds: lists, dicts, sets and (eq=True, not frozen) dataclass
\* instances are unhashable.
RECURSIVE Hashable(_)
Hashable(v) ==
    CASE v.k \in {"list", "dict", "set"} -> FALSE
      [] is_dataclass(v.k) -> FALSE
      [] v.k = "tuple" -> \A i \in 1..Len(v.v) : Hashable(v.v[i])
      [] OTHER -> TRUE

\* ---------------------------------------------------------------- codecs

\* The callables of the registry and of the field decoder plans.
BuiltinCodec(n) == [k |-> "builtin", n |-> n]
EncodeDataclassRef == [k |-> "_encode_dataclass"]
IdentityDec == [k |-> "_identity"]
EnumDec(e) == [k |-> "decode_enum", n |-> e]
\* partial(self.decode_dataclass, class_type, field_decoders): d names the
\* field_decoders dict the partial closes over.
DataclassDec(d) == [k |-> "decode_dataclass", d |-> d]
OptionalDec(inner) == [k |-> "optional", inner |-> inner]
CollectionDec(factory, elem) == [k |-> "decode_collection", factory |-> factory, elem |-> elem]
DictDec(key, val) == [k |-> "decode_dict", key |-> key, val |-> val]

BuiltinTypes == {"UUID", "Decimal", "datetime", "time", "date"}

\* The encoder / decoder pairs registered by __init__.  A UUID, Decimal or
\* date carries its canonical text as payload; str() and the constructor
\* move it between the value and the text.
ApplyBuiltinEncoder(n, obj) ==
    CASE n = "datetime" -> datetime_to_json(obj)
      [] n = "time" -> time_to_json(obj)
      [] OTHER -> Ok(StrV(obj.v))

ApplyBuiltinDecoder(n, raw) ==
    CASE n = "datetime" -> json_to_datetime(raw)
      [] n = "time" -> json_to_time(raw)
      [] OTHER -> IF raw.k = "str" THEN Ok(V(n, raw.v)) ELSE Raise("TypeError")


\* -------------------------------------------------------------- encoding

\* Encoding yields a set of outcomes: a set value is iterated in an order
\* Python does not specify, so each order is a possible outcome.  reg is
\* self._extra_types.
RECURSIVE encode_value(_, _)
RECURSIVE EncodeSeq(_, _)
RECURSIVE EncodeItems(_, _, _, _)

\* [self._encode_value(e) for e in s]: the first failure propagates.
EncodeSeq(reg, s) ==
    IF Len(s) = 0 THEN {Ok(<<>>)}
    ELSE UNION { IF ~h.ok THEN {h}
                 ELSE { IF t.ok THEN Ok(<<h.v>> \o t.v) ELSE t : t \in EncodeSeq(reg, Tail(s)) }
                 : h \in encode_value(reg, s[1]) }

encode_dataclass(reg, obj) ==
    LET fs == Fields(obj.k)
        vals == [i \in 1..Len(fs) |-> obj.v[fs[i].name]]
        Index(key) == CHOOSE i \in 1..Len(fs) : StrV(fs[i].name) = key
    IN  { IF r.ok
          THEN Ok(DictV([key \in {StrV(fs[i].name) : i \in 1..Len(fs)} |-> r.v[Index(key)]]))
          ELSE r
          : r \in EncodeSeq(reg, vals) }

encode_collection(reg, obj) ==
    LET orders == IF obj.k \in {"set", "frozenset"} THEN Perms(obj.v) ELSE {obj.v}
    IN  UNION { { IF r.ok THEN Ok(ListV(r.v)) ELSE r : r \in EncodeSeq(reg, o) } : o \in orders }

\* {self._encode_value(k): self._encode_value(v) for k, v in obj.items()},
\* over the keys ks still to come; acc is the dict built so far.
EncodeItems(reg, f, ks, acc) ==
    IF Len(ks) = 0 THEN {Ok(DictV(acc))}
    ELSE UNION { IF ~ek.ok THEN {ek}
                 ELSE UNION { IF ~ev.ok THEN {ev}
                              ELSE IF ~Hashable(ek.v) THEN {Raise("TypeError")}
                              ELSE EncodeItems(reg, f, Tail(ks), (ek.v :> ev.v) @@ acc)
                              : ev \in encode_value(reg, f[ks[1]]) }
                 : ek \in encode_value(reg, ks[1]) }

encode_dict(reg, obj) == EncodeItems(reg, obj.v, Order(DOMAIN obj.v), <<>>)

encode_value(reg, obj) ==
    IF obj.k \in DOMAIN reg
    THEN IF reg[obj.k].encoder.k = "builtin"
         THEN {ApplyBuiltinEncoder(reg[obj.k].encoder.n, obj)}
         ELSE encode_dataclass(reg, obj)
    ELSE IF is_enum(obj.k) THEN {Ok(obj.v.value)}
    ELSE IF obj.k = "dict" THEN encode_dict(reg, obj)
    ELSE IF obj.k \in ALLOWED_CONTAINERS THEN encode_collection(reg, obj)
    ELSE IF is_dataclass(obj.k) THEN encode_dataclass(reg, obj)
    ELSE {Ok(obj)}

serialize_to_dict(reg, obj) ==
    IF ~is_dataclass(obj.k) THEN {Raise("SerializerTypeError")}
    ELSE encode_dataclass(reg, obj)

\* -------------------------------------------------------------- decoding

\* heap maps the name d of a field_decoders dict to [cls, fds]: the class of
\* the partial that closes over it and the dict's items, in insertion order.
\* An outcome's calls counts the decoders invoked, the optional wrapper
\* itself not counted.
Called(r, n) == [r EXCEPT !.calls = @ + n]

RECURSIVE Decode(_, _, _)
RECURSIVE DecodeFields(_, _, _, _)
RECURSIVE DecodeElems(_, _, _, _)
RECURSIVE DecodeItems(_, _, _, _, _)

\* decode_dataclass reading raw.get(field_name) in place of raw[field_name]
DecodeFields_Get(heap, fds, raw, params) ==
    IF Len(fds) = 0 THEN Ok(params)
    ELSE IF raw.k # "dict" THEN Raise("TypeError")
    ELSE LET r == Decode(heap, fds[1].dec,
                         IF StrV(fds[1].name) \in DOMAIN raw.v THEN raw.v[StrV(fds[1].name)] ELSE NoneV)
         IN  IF ~r.ok THEN r
             ELSE Called(DecodeFields(heap, Tail(fds), raw, (fds[1].name :> r.v) @@ params), r.calls)

\* for field_name, decoder in field_decoders.items():
\*     params[field_name] = decoder(raw[field_name])
DecodeFields(heap, fds, raw, params) ==
    IF Len(fds) = 0 THEN Ok(params)
    ELSE IF raw.k # "dict" THEN Raise("TypeError")
    ELSE IF StrV(fds[1].name) \notin DOMAIN raw.v THEN Raise("KeyError")
    ELSE LET r == Decode(heap, fds[1].dec, raw.v[StrV(fds[1].name)])
         IN  IF ~r.ok THEN r
             ELSE Called(DecodeFields(heap, Tail(fds), raw, (fds[1].name :> r.v) @@ params), r.calls)

decode_dataclass(heap, d, raw) ==
    LET r == DecodeFields(heap, heap[d].fds, raw, <<>>)
    IN  IF r.ok THEN [r EXCEPT !.v = V(heap[d].cls, r.v)] ELSE r

decode_enum(e, raw) ==
    IF \E m \in EnumMembers(e) : m.value = raw
    THEN Ok(V(e, CHOOSE m \in EnumMembers(e) : m.value = raw))
    ELSE Raise("ValueError")

\* iter(raw): the elements of a list or tuple, the characters of a text, the
\* keys of a mapping.
Iterable(raw) == raw.k \in {"list", "tuple", "str", "dict", "set", "frozenset"}
Iterate(raw) ==
    CASE raw.k \in {"list", "tuple"} -> raw.v
      [] raw.k = "str" -> [i \in 1..Len(raw.v) |-> StrV(<<raw.v[i]>>)]
      [] raw.k = "dict" -> Order(DOMAIN raw.v)
      [] OTHER -> Order(raw.v)

\* collection_factory(element_decoder(e) for e in raw), element by element;
\* a set or frozenset hashes each element as it arrives.
DecodeElems(heap, factory, elem, es) ==
    IF Len(es) = 0 THEN Ok(<<>>)
    ELSE LET r == Decode(heap, elem, es[1])
         IN  IF ~r.ok THEN r
             ELSE IF factory \in {"set", "frozenset"} /\ ~Hashable(r.v) THEN Raise("TypeError")
             ELSE LET t == DecodeElems(heap, factory, elem, Tail(es))
                  IN  IF t.ok THEN Called(Ok(<<r.v>> \o t.v), r.calls + t.calls) ELSE t

decode_collection(heap, factory, elem, raw) ==
    IF ~Iterable(raw) THEN Raise("TypeError")
    ELSE LET r == DecodeElems(heap, factory, elem, Iterate(raw))
         IN  IF ~r.ok THEN r
             ELSE IF factory \in {"set", "frozenset"}
             THEN [r EXCEPT !.v = V(factory, {r.v[i] : i \in 1..Len(r.v)})]
             ELSE [r EXCEPT !.v = V(factory, r.v)]

\* {key_decoder(k): value_decoder(v) for k, v in raw.items()}
DecodeItems(heap, dec, f, ks, acc) ==
    IF Len(ks) = 0 THEN Ok(DictV(acc))
    ELSE LET rk == Decode(heap, dec.key, ks[1])
         IN  IF ~rk.ok THEN rk
             ELSE LET rv == Decode(heap, dec.val, f[ks[1]])
                  IN  IF ~rv.ok THEN rv
                      ELSE IF ~Hashable(rk.v) THEN Raise("TypeError")
                      ELSE Called(DecodeItems(heap, dec, f, Tail(ks), (rk.v :> rv.v) @@ acc),
                                  rk.calls + rv.calls)

decode_dict(heap, dec, raw) ==
    IF raw.k # "dict" THEN Raise("AttributeError")
    ELSE DecodeItems(heap, dec, raw.v, Order(DOMAIN raw.v), <<>>)

\* dec(raw), for a callable dec of the registry or of a field decoder plan
Decode(heap, dec, raw) ==
    CASE dec.k = "optional" ->
            IF raw.k = "NoneType" THEN Ok(NoneV) ELSE Decode(heap, dec.inner, raw)
      [] dec.k = "_identity" -> Called(Ok(raw), 1)
      [] dec.k = "builtin" -> Called(ApplyBuiltinDecoder(dec.n, raw), 1)
      [] dec.k = "decode_enum" -> Called(decode_enum(dec.n, raw), 1)
      [] dec.k = "decode_dataclass" -> Called(decode_dataclass(heap, dec.d, raw), 1)
      [] dec.k = "decode_collection" ->
            Called(decode_collection(heap, dec.factory, dec.elem, raw), 1)
      [] dec.k = "decode_dict" -> Called(decode_dict(heap, dec, raw), 1)


\* ------------------------------------------------- decoder derivation

\* RecordSerializer.register_type, on the registry reg
register_type(reg, type_, encoder, decoder) ==
    (type_ :> [encoder |-> encoder, decoder |-> decoder]) @@ reg

\* A NewType alias unwraps to its supertype; any other hint is kept.  No
\* plain function stands as a hint in the declarations in use.
unwrap_alias(T) == IF T.k = "newtype" THEN T.a[1] ELSE T

\* The in-construction map is an insertion-ordered dict: a sequence of
\* [type, d], d naming the field_decoders dict of the type's decoder.
InConstruction(inc) == {inc[i].type : i \in 1..Len(inc)}
InConstructionDecoder(inc, c) == DataclassDec(inc[CHOOSE i \in 1..Len(inc) : inc[i].type = c].d)
Put(inc, c, d) ==
    IF c \in InConstruction(inc)
    THEN [i \in 1..Len(inc) |-> IF inc[i].type = c THEN [type |-> c, d |-> d] ELSE inc[i]]
    ELSE Append(inc, [type |-> c, d |-> d])

\* _make_dataclass_decoder without the look into the registry
make_dataclass_decoder_Uncached(c, reg, inc) ==
    IF c \in InConstruction(inc) THEN [k |-> "dec", dec |-> InConstructionDecoder(inc, c)]
    ELSE [k |-> "enter", cls |-> c]

\* _make_dataclass_decoder without the look into the in-construction map
make_dataclass_decoder_Unguarded(c, reg, inc) ==
    IF c \in DOMAIN reg THEN [k |-> "dec", dec |-> reg[c].decoder]
    ELSE [k |-> "enter", cls |-> c]

\* The head of _make_dataclass_decoder: a decoder that is cached or under
\* construction is returned, otherwise the class is entered.
make_dataclass_decoder(c, reg, inc) ==
    IF c \in DOMAIN reg THEN [k |-> "dec", dec |-> reg[c].decoder]
    ELSE IF c \in InConstruction(inc) THEN [k |-> "dec", dec |-> InConstructionDecoder(inc, c)]
    ELSE [k |-> "enter", cls |-> c]

\* _make_scalar_decoder up to the optional wrapper.  issubclass raises
\* TypeError for a hint that is not a class (a subscripted alias, a Union).
make_scalar_decoder(T, reg, inc) ==
    IF T.k = "class" /\ T.n \in DOMAIN reg THEN [k |-> "dec", dec |-> reg[T.n].decoder]
    ELSE IF T.k # "class" THEN [k |-> "raise", exc |-> "TypeError"]
    ELSE IF is_enum(T.n) THEN [k |-> "dec", dec |-> EnumDec(T.n)]
    ELSE IF is_dataclass(T.n) THEN make_dataclass_decoder(T.n, reg, inc)
    ELSE [k |-> "dec", dec |-> IdentityDec]

\* lambda raw: None if raw is None else decoder_func(raw)
Wrap(optional, dec) == IF optional THEN OptionalDec(dec) ELSE dec

PlanError(e) == [err |-> e, shape |-> "", optional |-> FALSE, factory |-> "", slots |-> <<>>]
Plan(shape, optional, factory, slots) ==
    [err |-> "", shape |-> shape, optional |-> optional, factory |-> factory, slots |-> slots]

\* _make_container_decoder up to the element decoders: the hints (slots)
\* whose scalar decoders it asks for.
ContainerPlan(T, original, optional) ==
    IF original \notin ALLOWED_CONTAINERS THEN PlanError("SerializerTypeError")
    ELSE IF original = "dict"
    THEN IF Len(get_args(T)) # 2 THEN PlanError("ValueError")
         ELSE Plan("dict", optional, "dict", <<unwrap_alias(get_args(T)[1]), unwrap_alias(get_args(T)[2])>>)
    ELSE IF Len(get_args(T)) = 0 THEN PlanError("IndexError")
    ELSE Plan("collection", optional, original, <<unwrap_alias(get_args(T)[1])>>)

\* The body of the loop over the type hints of a class, for one field type.
FieldPlan(field_type) ==
    LET original_type == get_origin(field_type)
        type_args == get_args(field_type)
    IN  IF original_type = "None"
        THEN IF field_type.n \in ALLOWED_CONTAINERS THEN PlanError("SerializerTypeError")
             ELSE Plan("scalar", FALSE, "", <<field_type>>)
        ELSE IF original_type = "Union"
        THEN IF Len(type_args) # 2 \/ type_args[2] # NoneType THEN PlanError("SerializerTypeError")
             ELSE LET inner_type == unwrap_alias(type_args[1])
                  IN  IF get_origin(inner_type) = "None"
                      THEN Plan("scalar", TRUE, "", <<inner_type>>)
                      ELSE ContainerPlan(inner_type, get_origin(inner_type), TRUE)
        ELSE ContainerPlan(field_type, original_type, FALSE)


\* ----------------------------------------------------------------- inputs

\* Instances of the record types, built as their constructors build them.
Field(name, value) == name :> value
Leaf(n) == V("Leaf", Field(<<"n">>, n))
Node(v, n) == V("Node", Field(<<"v">>, v) @@ Field(<<"n">>, n))
Tree(c) == V("Tree", Field(<<"c">>, ListV(c)))
Ping(p) == V("Ping", Field(<<"p">>, p))
Pong(q) == V("Pong", Field(<<"q">>, q))
Event(w, o, c) == V("Event", Field(<<"w">>, w) @@ Field(<<"o">>, o) @@ Field(<<"c">>, c))
Bag(t, s, m) == V("Bag", Field(<<"t">>, t) @@ Field(<<"s">>, s) @@ Field(<<"m">>, m))
Single(c, x) == V(c, Field(<<"x">>, x))

Clock == <<"0", "9", ":", "0", "5", ":", "1", "6">>
Day == <<"2", "0", "2", "1", "-", "0", "4", "-", "2", "3">>
DateTimeV(us, tz) == V("datetime", [base |-> Day \o <<"T">> \o Clock, us |-> us, tz |-> tz])
Offsets == {<<>>, UtcOffset, <<"+", "0", "2", ":", "0", "0">>}
DateTimes == {DateTimeV(us, tz) : us \in {0, 157000, 157178}, tz \in Offsets}
Colors == {V("Color", m) : m \in EnumMembers("Color")}

RECURSIVE NodeObjs(_)
NodeObjs(depth) ==
    IF depth = 0 THEN {}
    ELSE {Node(IntV(depth), n) : n \in {NoneV} \cup NodeObjs(depth - 1)}

RECURSIVE TreeObjs(_)
TreeObjs(depth) ==
    IF depth = 0 THEN {}
    ELSE {Tree(<<>>)} \cup {Tree(<<x>>) : x \in TreeObjs(depth - 1)}
                      \cup {Tree(<<x, Tree(<<>>)>>) : x \in TreeObjs(depth - 1)}

RECURSIVE PingObjs(_)
PingObjs(depth) ==
    IF depth = 0 THEN {}
    ELSE {Ping(Pong(q)) : q \in {NoneV} \cup PingObjs(depth - 1)}

EventObjs ==
    {Event(w, o, c) : w \in DateTimes, o \in {NoneV, DateTimeV(157000, UtcOffset)}, c \in Colors}

BagObjs ==
    {Bag(ListV(t), V("set", s), m) :
        t \in {<<>>, <<StrV(<<"a">>)>>, <<StrV(<<"a">>), StrV(<<"b">>)>>},
        s \in {{}, {IntV(1), IntV(2)}},
        m \in {NoneV, DictV(StrV(<<"k">>) :> Leaf(IntV(1)))}}

OtherObjs ==
    { Leaf(IntV(1)),
      V("Blob", Field(<<"b">>, V("bytes", <<"x">>))),
      Single("Bare", ListV(<<IntV(1)>>)),
      Single("OptBare", NoneV),
      Single("OptBare", V("set", {IntV(1)})),
      Single("ElemBare", ListV(<<ListV(<<IntV(1)>>)>>)),
      Single("RawList", ListV(<<IntV(1)>>)),
      V("Holder", Field(<<"l">>, Leaf(IntV(1))) @@ Field(<<"b">>, Single("Bare", ListV(<<>>)))),
      V("Multi", Field(<<"u">>, IntV(1))),
      Single("Deep", ListV(<<IntV(1), NoneV>>)),
      Single("Queue", V("deque", <<IntV(1)>>)) }

Objects ==
    NodeObjs(MaxDepth) \cup TreeObjs(MaxDepth) \cup PingObjs(MaxDepth - 1)
        \cup EventObjs \cup BagObjs \cup OtherObjs

\* -------------------------------------------------------------- the state

VARIABLES
    extra_types,    \* self._extra_types: type name -> [encoder, decoder]
    heap,           \* the field_decoders dicts the dataclass decoders close over
    pc,             \* per thread: where it is in its call
    op,             \* per thread: the call it is in, with its arguments
    stack,          \* per thread: the frames of _make_dataclass_decoder
    constructed,    \* per thread: register_dataclass's local dict
    result,         \* per thread: what its last call returned or raised
    ncalls,         \* per thread: calls started
    wrote,          \* per thread: the types its call has put in the registry
    entered,        \* per thread: the classes its call put under construction
    mode,           \* which inputs the clients draw: "registry" or "codec"
    hint,           \* the type expression handed to parse_typehint
    info            \* what parse_typehint returned

vars == <<extra_types, heap, pc, op, stack, constructed, result, ncalls, wrote,
          entered, mode, hint, info>>

Pending == [k |-> "pending"]
NoOp == [name |-> "none", cls |-> "", arg |-> NoneV, src |-> NoneV, how |-> "", f |-> <<>>, cached |-> FALSE]

\* RecordSerializer.__init__
InitRegistry ==
    register_type(register_type(register_type(register_type(register_type(<<>>,
        "UUID", BuiltinCodec("UUID"), BuiltinCodec("UUID")),
        "Decimal", BuiltinCodec("Decimal"), BuiltinCodec("Decimal")),
        "datetime", BuiltinCodec("datetime"), BuiltinCodec("datetime")),
        "time", BuiltinCodec("time"), BuiltinCodec("time")),
        "date", BuiltinCodec("date"), BuiltinCodec("date"))

InitSerializer ==
    /\ extra_types = InitRegistry
    /\ heap = <<>>
    /\ pc = [t \in Threads |-> "idle"]
    /\ op = [t \in Threads |-> NoOp]
    /\ stack = [t \in Threads |-> <<>>]
    /\ constructed = [t \in Threads |-> <<>>]
    /\ result = [t \in Threads |-> Ok(NoneV)]
    /\ ncalls = [t \in Threads |-> 0]
    /\ wrote = [t \in Threads |-> {}]
    /\ entered = [t \in Threads |-> <<>>]

Unparsed == Raise("unparsed")

\* Threads share the serializer and register and load record types.
Init == InitSerializer /\ mode = "registry" /\ hint = NoneType /\ info = Unparsed
\* One client serializes instances and loads the trees.
CodecInit == InitSerializer /\ mode = "codec" /\ hint = NoneType /\ info = Unparsed


\* ------------------------------------------------------------- the clients

Active(t) == mode = "registry" \/ t = 1
RECURSIVE Sum(_, _)
Sum(f, n) == IF n = 0 THEN 0 ELSE f[n] + Sum(f, n - 1)
CanCall(t) ==
    /\ Active(t)
    /\ pc[t] \in {"idle", "done", "raised"}
    /\ Sum(ncalls, NumThreads) < MaxCalls

\* A tree some serialize_to_dict(obj) call returns
TreeOf(obj) == (CHOOSE r \in serialize_to_dict(InitRegistry, obj) : r.ok).v

RegisterInputs ==
    IF mode = "registry" THEN {"Leaf", "Node", "Ping", "Pong", "Holder"} ELSE {"Leaf", "Color"}

SerializeInputs ==
    IF mode = "registry" THEN {Leaf(IntV(1))} ELSE Objects \cup {NoneV}

\* The trees a client hands to load_dict.  In codec mode a client works on
\* the tree its serialize_to_dict call just returned: the tree as it is, the
\* tree without one key, or the tree with one key set to null, to a mapping
\* or to a text.
Crafted(tree, how, f) ==
    CASE how = "same" -> tree
      [] how = "drop" -> DictV([key \in DOMAIN tree.v \ {StrV(f)} |-> tree.v[key]])
      [] how = "null" -> DictV([tree.v EXCEPT ![StrV(f)] = NoneV])
      [] how = "mapping" -> DictV([tree.v EXCEPT ![StrV(f)] = DictV(StrV(<<"a">>) :> IntV(1))])
      [] how = "text" -> DictV([tree.v EXCEPT ![StrV(f)] = StrV(<<"a", "b">>)])

LoadInput(cls, arg, src, how, f) ==
    [name |-> "load_dict", cls |-> cls, arg |-> arg, src |-> src, how |-> how, f |-> f,
     cached |-> FALSE]

RegistryLoads ==
    {LoadInput(o.k, TreeOf(o), o, "same", <<>>) :
        o \in {Node(IntV(3), Node(IntV(2), Node(IntV(1), NoneV))),
               Ping(Pong(Ping(Pong(NoneV)))),
               V("Holder", Field(<<"l">>, Leaf(IntV(1))) @@ Field(<<"b">>, Single("Bare", ListV(<<>>))))}}

LoadInputs(t) ==
    IF mode = "registry"
    THEN RegistryLoads
    ELSE IF op[t].name = "serialize_to_dict" /\ pc[t] = "done" /\ result[t].ok
    THEN {LoadInput(op[t].arg.k, result[t].v, op[t].arg, "same", <<>>)}
         \cup {LoadInput(op[t].arg.k, Crafted(result[t].v, how, f), op[t].arg, how, f) :
                 how \in {"drop", "null", "mapping", "text"}, f \in FieldNames(op[t].arg.k)}
    ELSE {}

\* ------------------------------------------------------------- the steps

StartCall(t, o) ==
    /\ op' = [op EXCEPT ![t] = o]
    /\ ncalls' = [ncalls EXCEPT ![t] = @ + 1]
    /\ wrote' = [wrote EXCEPT ![t] = {}]
    /\ entered' = [entered EXCEPT ![t] = <<>>]
    /\ stack' = [stack EXCEPT ![t] = <<>>]
    /\ constructed' = [constructed EXCEPT ![t] = <<>>]

\* register_dataclass(class_type), up to the call of _make_dataclass_decoder
CallRegister(t) ==
    /\ CanCall(t)
    /\ \E c \in RegisterInputs :
        /\ StartCall(t, [NoOp EXCEPT !.name = "register_dataclass", !.cls = c,
                                     !.cached = c \in DOMAIN extra_types])
        /\ IF ~is_dataclass(c)
           THEN /\ pc' = [pc EXCEPT ![t] = "raised"]
                /\ result' = [result EXCEPT ![t] = Raise("SerializerTypeError")]
           ELSE /\ pc' = [pc EXCEPT ![t] = "enter"]
                /\ UNCHANGED result
    /\ UNCHANGED <<extra_types, heap, mode, hint, info>>

\* load_dict(class_type, raw), up to the call of register_dataclass or of
\* the cached decoder
CallLoad(t) ==
    /\ CanCall(t)
    /\ \E o \in LoadInputs(t) :
        /\ StartCall(t, [o EXCEPT !.cached = o.cls \in DOMAIN extra_types])
        /\ IF ~is_dataclass(o.cls)
           THEN /\ pc' = [pc EXCEPT ![t] = "raised"]
                /\ result' = [result EXCEPT ![t] = Raise("SerializerTypeError")]
           ELSE /\ pc' = [pc EXCEPT ![t] = IF o.cls \notin DOMAIN extra_types THEN "enter" ELSE "decode"]
                /\ UNCHANGED result
    /\ UNCHANGED <<extra_types, heap, mode, hint, info>>

\* serialize_to_dict(obj)
CallSerialize(t) ==
    /\ CanCall(t)
    /\ \E obj \in SerializeInputs : \E r \in serialize_to_dict(extra_types, obj) :
        /\ StartCall(t, [NoOp EXCEPT !.name = "serialize_to_dict", !.cls = obj.k, !.arg = obj])
        /\ pc' = [pc EXCEPT ![t] = IF r.ok THEN "done" ELSE "raised"]
        /\ result' = [result EXCEPT ![t] = r]
    /\ UNCHANGED <<extra_types, heap, mode, hint, info>>

\* The decoders a call has put on the heap are garbage once it has raised.
Collected(hp, t, n) == [d \in {d \in DOMAIN hp : ~(d.t = t /\ d.n = n)} |-> hp[d]]

\* An exception leaves register_dataclass (and load_dict) at once.
Fail(t, exc) ==
    /\ pc' = [pc EXCEPT ![t] = "raised"]
    /\ result' = [result EXCEPT ![t] = Raise(exc)]
    /\ stack' = [stack EXCEPT ![t] = <<>>]
    /\ constructed' = [constructed EXCEPT ![t] = <<>>]
    /\ heap' = Collected(heap, t, ncalls[t])
    /\ UNCHANGED <<extra_types, wrote, entered>>

\* _make_dataclass_decoder putting the decoder it has just begun in the
\* registry itself
Enter_Shared(t, c) ==
    LET d == [t |-> t, c |-> c, n |-> ncalls[t]]
    IN  /\ heap' = (d :> [cls |-> c, fds |-> <<>>]) @@ heap
        /\ constructed' = [constructed EXCEPT ![t] = Put(@, c, d)]
        /\ extra_types' = register_type(extra_types, c, EncodeDataclassRef, DataclassDec(d))
        /\ stack' = [stack EXCEPT ![t] = Append(@, [cls |-> c, d |-> d, i |-> 1, key |-> Pending])]
        /\ entered' = [entered EXCEPT ![t] = Append(@, c)]
        /\ wrote' = [wrote EXCEPT ![t] = @ \cup {c}]
        /\ pc' = [pc EXCEPT ![t] = "make"]
        /\ UNCHANGED result

\* field_decoders = {}; decoder_func = partial(...); in_construction[class_type] = ...
Enter(t, c) ==
    LET d == [t |-> t, c |-> c, n |-> ncalls[t]]
    IN  /\ heap' = (d :> [cls |-> c, fds |-> <<>>]) @@ heap
        /\ constructed' = [constructed EXCEPT ![t] = Put(@, c, d)]
        /\ stack' = [stack EXCEPT ![t] = Append(@, [cls |-> c, d |-> d, i |-> 1, key |-> Pending])]
        /\ entered' = [entered EXCEPT ![t] = Append(@, c)]
        /\ pc' = [pc EXCEPT ![t] = "make"]
        /\ UNCHANGED <<extra_types, wrote, result>>

\* register_dataclass has nothing (left) to register: it returns, and
\* load_dict goes on to the decoder.
Registered(t) ==
    IF op[t].name = "load_dict"
    THEN /\ pc' = [pc EXCEPT ![t] = "decode"]
         /\ UNCHANGED result
    ELSE /\ pc' = [pc EXCEPT ![t] = "done"]
         /\ result' = [result EXCEPT ![t] = Ok(NoneV)]

\* The call of _make_dataclass_decoder(class_type, constructed) by
\* register_dataclass.
EnterTop(t) ==
    /\ pc[t] = "enter"
    /\ LET r == make_dataclass_decoder(unwrap_alias(Cls(op[t].cls)).n, extra_types, constructed[t])
       IN  IF r.k = "enter"
           THEN Enter(t, r.cls)
           ELSE /\ Registered(t)
                /\ UNCHANGED <<extra_types, heap, stack, constructed, wrote, entered>>
    /\ UNCHANGED <<op, ncalls, mode, hint, info>>

\* A scalar decoder dec reaches the field the top frame is at: it becomes the
\* field's decoder, the element decoder of its collection, or the key or the
\* value decoder of its dict.
Delivered(stk, hp, dec) ==
    LET f == stk[Len(stk)]
        fld == Fields(f.cls)[f.i]
        plan == FieldPlan(unwrap_alias(fld.type))
        Store(fd) ==
            [stack |-> [stk EXCEPT ![Len(stk)] = [@ EXCEPT !.i = @ + 1, !.key = Pending]],
             heap |-> [hp EXCEPT ![f.d].fds = Append(@, [name |-> fld.name, dec |-> Wrap(plan.optional, fd)])]]
    IN  CASE plan.shape = "scalar" -> Store(dec)
          [] plan.shape = "collection" -> Store(CollectionDec(plan.factory, dec))
          [] plan.shape = "dict" ->
                IF f.key = Pending
                THEN [stack |-> [stk EXCEPT ![Len(stk)].key = dec], heap |-> hp]
                ELSE Store(DictDec(f.key, dec))

\* One pass of the loop over the type hints, up to the next scalar decoder:
\* it raises, enters a record type, or delivers a decoder.
FieldStep(t) ==
    /\ pc[t] = "make"
    /\ LET f == stack[t][Len(stack[t])]
           fs == Fields(f.cls)
       IN  /\ f.i <= Len(fs)
           /\ LET plan == FieldPlan(unwrap_alias(fs[f.i].type))
                  slot == IF plan.err # "" THEN NoneType
                          ELSE IF plan.shape = "dict" /\ f.key # Pending THEN plan.slots[2]
                          ELSE plan.slots[1]
                  r == IF plan.err # "" THEN [k |-> "raise", exc |-> plan.err]
                       ELSE make_scalar_decoder(slot, extra_types, constructed[t])
              IN  CASE r.k = "raise" -> Fail(t, r.exc)
                    [] r.k = "enter" -> Enter(t, r.cls)
                    [] r.k = "dec" ->
                        /\ stack' = [stack EXCEPT ![t] = Delivered(stack[t], heap, r.dec).stack]
                        /\ heap' = Delivered(stack[t], heap, r.dec).heap
                        /\ UNCHANGED <<extra_types, pc, constructed, result, wrote, entered>>
    /\ UNCHANGED <<op, ncalls, mode, hint, info>>

\* _make_dataclass_decoder registering each decoder as it completes
ReturnStep_Eager(t) ==
    /\ pc[t] = "make"
    /\ LET f == stack[t][Len(stack[t])]
           rest == SubSeq(stack[t], 1, Len(stack[t]) - 1)
       IN  /\ f.i > Len(Fields(f.cls))
           /\ extra_types' = register_type(extra_types, f.cls, EncodeDataclassRef, DataclassDec(f.d))
           /\ wrote' = [wrote EXCEPT ![t] = @ \cup {f.cls}]
           /\ IF Len(rest) = 0
              THEN /\ stack' = [stack EXCEPT ![t] = <<>>]
                   /\ pc' = [pc EXCEPT ![t] = "register"]
                   /\ UNCHANGED heap
              ELSE /\ stack' = [stack EXCEPT ![t] = Delivered(rest, heap, DataclassDec(f.d)).stack]
                   /\ heap' = Delivered(rest, heap, DataclassDec(f.d)).heap
                   /\ UNCHANGED pc
    /\ UNCHANGED <<op, constructed, result, ncalls, entered, mode, hint, info>>

\* return decoder_func: to the field of the caller's frame, or to
\* register_dataclass
ReturnStep(t) ==
    /\ pc[t] = "make"
    /\ LET f == stack[t][Len(stack[t])]
           rest == SubSeq(stack[t], 1, Len(stack[t]) - 1)
       IN  /\ f.i > Len(Fields(f.cls))
           /\ IF Len(rest) = 0
              THEN /\ stack' = [stack EXCEPT ![t] = <<>>]
                   /\ pc' = [pc EXCEPT ![t] = "register"]
                   /\ UNCHANGED heap
              ELSE /\ stack' = [stack EXCEPT ![t] = Delivered(rest, heap, DataclassDec(f.d)).stack]
                   /\ heap' = Delivered(rest, heap, DataclassDec(f.d)).heap
                   /\ UNCHANGED pc
    /\ UNCHANGED <<extra_types, op, constructed, result, ncalls, wrote, entered, mode, hint, info>>

\* One pass of: for type_, entry in constructed.items(): self.register_type(...)
RegisterStep(t) ==
    /\ pc[t] = "register"
    /\ LET e == constructed[t][1]
       IN  /\ extra_types' = register_type(extra_types, e.type, EncodeDataclassRef, DataclassDec(e.d))
           /\ wrote' = [wrote EXCEPT ![t] = @ \cup {e.type}]
           /\ constructed' = [constructed EXCEPT ![t] = Tail(@)]
           /\ IF Len(constructed[t]) = 1
              THEN Registered(t)
              ELSE UNCHANGED <<pc, result>>
    /\ UNCHANGED <<heap, op, stack, ncalls, entered, mode, hint, info>>

\* return self._extra_types[class_type]["decoder"](raw)
DecodeStep(t) ==
    /\ pc[t] = "decode"
    /\ LET r == Decode(heap, extra_types[op[t].cls].decoder, op[t].arg)
       IN  /\ result' = [result EXCEPT ![t] = r]
           /\ pc' = [pc EXCEPT ![t] = IF r.ok THEN "done" ELSE "raised"]
    /\ UNCHANGED <<extra_types, heap, op, stack, constructed, ncalls, wrote, entered, mode, hint, info>>

Next ==
    \E t \in Threads :
        \/ CallRegister(t)
        \/ CallLoad(t)
        \/ CallSerialize(t)
        \/ EnterTop(t)
        \/ FieldStep(t)
        \/ ReturnStep(t)
        \/ RegisterStep(t)
        \/ DecodeStep(t)

Spec == Init /\ [][Next]_vars
CodecSpec == CodecInit /\ [][Next]_vars


\* ------------------------------------- type descriptors (reflection.py)

\* typing.Union[x, y]: nested unions are flattened, duplicates dropped, and a
\* union of one member is that member.
Members(T) == IF T.k = "generic" /\ T.n = "Union" THEN T.a ELSE <<T>>
RECURSIVE Dedup(_)
Dedup(ms) ==
    IF Len(ms) = 0 THEN <<>>
    ELSE LET front == Dedup(SubSeq(ms, 1, Len(ms) - 1))
         IN  IF \E i \in 1..Len(front) : front[i] = ms[Len(ms)] THEN front
             ELSE Append(front, ms[Len(ms)])
UnionOf(x, y) ==
    LET ms == Dedup(Members(x) \o Members(y))
    IN  IF Len(ms) = 1 THEN ms[1] ELSE Gen("Union", ms)

\* The type expressions of nesting depth up to depth
RECURSIVE Hints(_)
Hints(depth) ==
    IF depth = 0 THEN {IntT, StrT, Cls("list"), Cls("dict"), Cls("Node")}
    ELSE LET inner == Hints(depth - 1)
         IN  inner \cup {Gen("list", <<x>>) : x \in inner}
                   \cup {Gen("dict", <<StrT, x>>) : x \in inner}
                   \cup {UnionOf(x, NoneType) : x \in inner}
                   \cup {UnionOf(NoneType, x) : x \in inner}
                   \cup {UnionOf(x, StrT) : x \in inner}

TypeInfo(real_type, hinted_type, type_args, is_optional) ==
    [real_type |-> real_type, hinted_type |-> hinted_type, type_args |-> type_args,
     is_optional |-> is_optional]

RECURSIVE parse_typehint(_)
RECURSIVE ParseArgs(_)

\* tuple(parse_typehint(arg) for arg in args): the first failure propagates
ParseArgs(args) ==
    IF Len(args) = 0 THEN Ok(<<>>)
    ELSE LET h == parse_typehint(args[1])
         IN  IF ~h.ok THEN h
             ELSE LET t == ParseArgs(Tail(args))
                  IN  IF t.ok THEN Ok(<<h.v>> \o t.v) ELSE t

parse_typehint(hinted_type) ==
    LET real_type == get_origin(hinted_type)
        type_args == get_args(hinted_type)
    IN  IF real_type = "None" THEN Ok(TypeInfo(hinted_type, hinted_type, <<>>, FALSE))
        ELSE IF real_type = "Union"
        THEN IF Len(type_args) = 2 /\ type_args[2] = NoneType
             THEN Ok(TypeInfo(type_args[1], hinted_type, <<>>, TRUE))
             ELSE Raise("TypeError")
        ELSE LET parsed == ParseArgs(type_args)
             IN  IF parsed.ok THEN Ok(TypeInfo(Cls(real_type), hinted_type, parsed.v, FALSE))
                 ELSE parsed

\* A client hands a type expression to parse_typehint.
ParseCall ==
    /\ mode = "typeinfo"
    /\ info = Unparsed
    /\ info' = parse_typehint(hint)
    /\ UNCHANGED <<extra_types, heap, pc, op, stack, constructed, result, ncalls, wrote,
                   entered, mode, hint>>

TypeInfoInit ==
    /\ InitSerializer
    /\ mode = "typeinfo"
    /\ hint \in Hints(MaxHintDepth)
    /\ info = Unparsed

TypeInfoSpec == TypeInfoInit /\ [][ParseCall]_vars


\* ================================================================ claims

Finished(t) == pc[t] \in {"done", "raised"}
Loaded(t, how) == op[t].name = "load_dict" /\ op[t].how = how /\ Finished(t)
FieldType(c, f) == Fields(c)[CHOOSE i \in 1..Len(Fields(c)) : Fields(c)[i].name = f].type

\* v with the microsecond of every datetime in it rounded down to a whole
\* millisecond
RECURSIVE Truncated(_)
Truncated(v) ==
    CASE v.k = "datetime" -> V("datetime", [v.v EXCEPT !.us = (@ \div 1000) * 1000])
      [] v.k \in {"list", "tuple"} -> V(v.k, [i \in 1..Len(v.v) |-> Truncated(v.v[i])])
      [] v.k \in {"set", "frozenset"} -> V(v.k, {Truncated(e) : e \in v.v})
      [] v.k = "dict" -> DictV([key \in DOMAIN v.v |-> Truncated(v.v[key])])
      [] is_dataclass(v.k) -> V(v.k, [n \in DOMAIN v.v |-> Truncated(v.v[n])])
      [] OTHER -> v

IdempotentRegistration ==
    \A t \in Threads :
        op[t].cached =>
            /\ entered[t] = <<>>
            /\ wrote[t] = {}
            /\ \A d \in DOMAIN heap : ~(d.t = t /\ d.n = ncalls[t])

\* A thread has registered a record type that was already registered.
IdempotentWitness ==
    \E t \in Threads :
        op[t].cached /\ op[t].name = "register_dataclass" /\ pc[t] = "done"

\* C3: within one call each record type is put under construction at most
\* once, so the frames of _make_dataclass_decoder never outnumber the record
\* types; and once registration has returned, loading the tree of a
\* self-referential instance (a Node chain of depth 3, a Ping/Pong cycle)
\* returns that instance.
CycleTermination ==
    \A t \in Threads :
        /\ \A i, j \in 1..Len(entered[t]) : i # j => entered[t][i] # entered[t][j]
        /\ Len(stack[t]) <= Cardinality(DataclassNames)
        /\ (Loaded(t, "same") /\ op[t].cls \in {"Node", "Ping"})
               => (result[t].ok /\ result[t].v = op[t].src)

\* A Node chain of depth 3 has been decoded by the decoder derived for Node.
CycleWitness ==
    \E t \in Threads :
        /\ Loaded(t, "same") /\ op[t].cls = "Node" /\ "Node" \in wrote[t]
        /\ result[t].ok /\ result[t].v.v[<<"n">>].v[<<"n">>].v[<<"n">>] = NoneV

\* C4: load_dict of a tree that lacks the key of a declared field fails (with
\* KeyError when the record type registered), optional field or not; with the
\* key of an optional field present and null the field decodes to None, and
\* the field's decoder invokes no decoder on null.
IsOptionalField(c, f) == FieldPlan(unwrap_alias(FieldType(c, f))).optional
FieldDecoder(c, f) ==
    LET fds == heap[extra_types[c].decoder.d].fds
    IN  fds[CHOOSE i \in 1..Len(fds) : fds[i].name = f].dec
FieldPresence ==
    \A t \in Threads :
        /\ Loaded(t, "drop") =>
              /\ ~result[t].ok
              /\ op[t].cls \in DOMAIN extra_types => result[t].exc = "KeyError"
        /\ (Loaded(t, "null") /\ op[t].cls \in DOMAIN extra_types /\ IsOptionalField(op[t].cls, op[t].f)) =>
              /\ result[t].ok
              /\ result[t].v.v[op[t].f] = NoneV
              /\ Decode(heap, FieldDecoder(op[t].cls, op[t].f), NoneV) = Ok(NoneV)

\* A tree without the key of the optional field of Node has been refused.
FieldPresenceWitness ==
    \E t \in Threads :
        /\ Loaded(t, "drop") /\ op[t].cls = "Node" /\ op[t].f = <<"n">>
        /\ IsOptionalField("Node", op[t].f) /\ op[t].f \in Defaulted("Node")
        /\ result[t].exc = "KeyError"

\* C5 as stated: load_dict of a tree whose value for a field declared as a
\* list, tuple, set or frozenset of some element type is a mapping fails.
NoShapeCoercion ==
    \A t \in Threads :
        (/\ Loaded(t, "mapping")
         /\ FieldPlan(unwrap_alias(FieldType(op[t].cls, op[t].f))).shape = "collection")
            => ~result[t].ok

\* C6 as stated: serialize_to_dict fails when encoding reaches a value whose
\* type has no registered codec and is no enumeration, record type, container
\* or tree-native scalar.
RECURSIVE ReachesForeign(_, _)
ReachesForeign(reg, v) ==
    IF v.k \in DOMAIN reg /\ reg[v.k].encoder.k = "builtin" THEN FALSE
    ELSE IF is_enum(v.k) THEN FALSE
    ELSE IF v.k = "dict"
    THEN \E key \in DOMAIN v.v : ReachesForeign(reg, key) \/ ReachesForeign(reg, v.v[key])
    ELSE IF v.k \in {"list", "tuple"} THEN \E i \in 1..Len(v.v) : ReachesForeign(reg, v.v[i])
    ELSE IF v.k \in {"set", "frozenset"} THEN \E e \in v.v : ReachesForeign(reg, e)
    ELSE IF is_dataclass(v.k) THEN \E n \in DOMAIN v.v : ReachesForeign(reg, v.v[n])
    ELSE v.k \notin {"str", "int", "NoneType"}
UnregisteredTypeError ==
    \A t \in Threads :
        (/\ op[t].name = "serialize_to_dict" /\ Finished(t)
         /\ ReachesForeign(extra_types, op[t].arg))
            => ~result[t].ok

\* C7 as stated: registering a record type with a field whose declared type
\* contains a container type without its element types raises the schema
\* error, so the call never gets to register or to decode.
RECURSIVE HasBareContainer(_)
HasBareContainer(T) ==
    \/ T.k = "class" /\ T.n \in ALLOWED_CONTAINERS
    \/ T.k = "generic" /\ T.n \in ALLOWED_CONTAINERS /\ Len(T.a) = 0
    \/ \E i \in 1..Len(T.a) : HasBareContainer(T.a[i])
BareContainerRejected ==
    \A t \in Threads :
        (/\ op[t].name \in {"register_dataclass", "load_dict"}
         /\ is_dataclass(op[t].cls)
         /\ \E i \in 1..Len(Fields(op[t].cls)) : HasBareContainer(Fields(op[t].cls)[i].type))
            => /\ pc[t] \notin {"register", "decode", "done"}
               /\ pc[t] = "raised" => result[t].exc = "SerializerTypeError"

\* C8 as stated: every TypeInfo parse_typehint returns, at every level, has
\* as real_type the class of the expression without its optional wrapper and
\* its parameters, and two type arguments for a dict, one for another
\* subscripted container, none for a class.
StripOptional(h) ==
    IF h.k = "generic" /\ h.n = "Union" /\ Len(h.a) = 2 /\ h.a[2] = NoneType THEN h.a[1] ELSE h
BaseType(h) == IF StripOptional(h).k = "generic" THEN Cls(StripOptional(h).n) ELSE StripOptional(h)
Arity(h) ==
    IF StripOptional(h).k # "generic" THEN 0
    ELSE IF StripOptional(h).n = "dict" THEN 2 ELSE 1
RECURSIVE WellFormed(_)
WellFormed(ti) ==
    /\ ti.real_type = BaseType(ti.hinted_type)
    /\ Len(ti.type_args) = Arity(ti.hinted_type)
    /\ \A i \in 1..Len(ti.type_args) : WellFormed(ti.type_args[i])
TypeInfoArity == (mode = "typeinfo" /\ info.ok) => WellFormed(info.v)

\* C9: every record decoder of the registry, and every record decoder
\* reachable from one, holds a field decoder for each declared field of its
\* type; and a decoder refers to a decoder begun by another call only once
\* that one is complete.
RECURSIVE Refs(_)
Refs(dec) ==
    CASE dec.k = "decode_dataclass" -> {dec.d}
      [] dec.k = "optional" -> Refs(dec.inner)
      [] dec.k = "decode_collection" -> Refs(dec.elem)
      [] dec.k = "decode_dict" -> Refs(dec.key) \cup Refs(dec.val)
      [] OTHER -> {}
Complete(d) ==
    /\ d \in DOMAIN heap
    /\ [i \in 1..Len(heap[d].fds) |-> heap[d].fds[i].name]
           = [i \in 1..Len(Fields(heap[d].cls)) |-> Fields(heap[d].cls)[i].name]
DirectRefs(d) ==
    IF d \in DOMAIN heap THEN UNION {Refs(heap[d].fds[i].dec) : i \in 1..Len(heap[d].fds)} ELSE {}
RECURSIVE Reach(_, _)
Reach(seen, frontier) ==
    IF frontier \subseteq seen THEN seen
    ELSE Reach(seen \cup frontier, UNION {DirectRefs(d) : d \in frontier})
NoHalfBuiltVisible ==
    /\ \A d \in Reach({}, UNION {Refs(extra_types[c].decoder) : c \in DOMAIN extra_types}) :
          Complete(d)
    /\ \A d \in DOMAIN heap : \A r \in DirectRefs(d) :
          (r.t = d.t /\ r.n = d.n) \/ Complete(r)

\* One thread has registered Ping and not yet Pong while another thread is
\* deriving the decoder of the same cycle.
HalfBuiltWitness ==
    \E t, u \in Threads :
        /\ t # u
        /\ pc[t] = "register" /\ wrote[t] # {} /\ op[t].cls \in {"Ping", "Pong"}
        /\ pc[u] = "make" /\ op[u].cls \in {"Ping", "Pong"}

\* C10: the step at which register_dataclass raises comes before the call has
\* written any entry of the registry, writes none, and comes before any
\* decoder has been invoked.
FailedRegistrationAtomic ==
    [][\A t \in Threads :
          (pc[t] \in {"enter", "make", "register"} /\ pc'[t] = "raised")
              => /\ wrote[t] = {}
                 /\ wrote'[t] = {}
                 /\ extra_types' = extra_types
                 /\ result'[t].calls = 0]_vars

\* Holder's registration has raised at its field of type Bare, after the
\* decoder of Leaf was complete.
FailedRegistrationWitness ==
    \E t \in Threads :
        /\ pc[t] = "raised" /\ op[t].cls = "Holder"
        /\ entered[t] = <<"Holder", "Leaf", "Bare">>
        /\ result[t].exc = "SerializerTypeError"
        /\ "Leaf" \notin DOMAIN extra_types


====
